---- MODULE Spec2Model ----
(***************************************************************************)
(* The animation bootstrapper of src/pages/index.tsx: the App component's  *)
(* script-loader effect, initializeGsap, the mouse-tracking effect and     *)
(* their callbacks, run by React and the browser's event loop.             *)
(*                                                                         *)
(* Document-wide state (window.gsap, the script tags) outlives component   *)
(* instances. Every component instance has its own refs and state cell.    *)
(* Only the latest instance can be mounted; callbacks registered by an     *)
(* earlier instance (script onload, retry timers) may still fire.          *)
(***************************************************************************)
EXTENDS Integers, Sequences, FiniteSets

\* ------------------------------------------------------------- bounds
MaxInstances == 2
MaxRefresh == 1

Inst == 1..MaxInstances

\* clientX / clientY values a mousemove event can carry
Coords == {80, 100}

\* half of the blob's size (w-36 h-36 = 144px), the offset of handleMouseMove
BlobHalf == 72

\* the blob's width and height in px: w-36 h-36, 36 * 0.25rem at 16px per rem
BlobSize == 144

VARIABLES
  gsap,          \* window.gsap is defined
  scripts,       \* script tags in the document with the engine URL
  contexts,      \* every gsap.context() ever created
  nInst,         \* number of component instances created so far
  phase,         \* per instance: "unborn", "mounted", "unmounted"
  epoch,         \* per instance: how often its effects were re-run in place
  blobRef,       \* per instance: blobRef.current is non-null
  isGsapReady,   \* per instance: the useState cell
  rendered,      \* per instance: isGsapReady as of the last committed render
  xTo, yTo,      \* per instance: quickTo functions (0 = null, else context id)
  gsapContext,   \* per instance: gsapContext.current (0 = null, else context id)
  scriptTagRef,  \* per instance: scriptTagRef.current (0 = null, else tag index)
  checkInterval, \* per instance: the effect's poll interval is active
  retryPending,  \* per instance: pending setTimeout(initializeGsap, 100) timers
  listener,      \* per instance: handleMouseMove is registered on window
  atMount,       \* per instance: what the last effect setup observed
  mouse,         \* pointer position of the last mousemove event
  blobX, blobY,  \* per instance: last value passed to xTo / yTo
  error          \* an exception was thrown by a handler

vars == <<gsap, scripts, contexts, nInst, phase, epoch, blobRef, isGsapReady,
          rendered, xTo, yTo, gsapContext, scriptTagRef, checkInterval,
          retryPending, listener, atMount, mouse, blobX, blobY, error>>

\* ------------------------------------------------------------- helpers

\* the lookup never finds the tag
ExistingScriptNever(tags) == FALSE

\* document.querySelector('script[src=...]') finds a tag
ExistingScript(tags) == Len(tags) > 0

\* the guard forgets the engine global
CanInitializeNoEngine(g, blob) == blob

\* the element check of the guard is inverted
CanInitializeDetached(g, blob) == g /\ ~blob

\* the guard of initializeGsap
CanInitialize(g, blob) == g /\ blob

\* the failure branch never schedules a retry
ShouldRetryNever(blob) == FALSE

\* the retry is scheduled without the mounted check
ShouldRetryAlways(blob) == TRUE

\* the guard of the retry branch
ShouldRetry(blob) == blob

\* the flag is toggled instead of set
ToggleIsGsapReady(old) == ~old

\* setIsGsapReady(true)
SetIsGsapReady(old) == TRUE

\* the check of the global always fails
EngineNeverOnWindow(g) == FALSE

\* `if (window.gsap)` of the effect and of the poll callback
EngineOnWindow(g) == g

\* script.onerror calls initializeGsap as onload does
OnerrorRetries == TRUE

\* script.onerror only logs: it does not call initializeGsap
OnerrorInitializes == FALSE

\* the cleanup reverts without the null check
CleanupHasContextAlways(c) == TRUE

\* `if (gsapContext.current)` of the cleanup
CleanupHasContext(c) == c # 0

\* the cleanup forgets clearInterval
IntervalKeptAfterCleanup(active) == active

\* `if (checkInterval) clearInterval(checkInterval)` of the cleanup
IntervalAfterCleanup(active) == FALSE

\* the cleanup leaves the handler registered
ListenerKeptAfterCleanup(attached) == attached

\* window.removeEventListener("mousemove", handleMouseMove) of the tracking
\* effect's cleanup
ListenerAfterCleanup(attached) == FALSE

\* the cleanup removes the tag it kept in scriptTagRef
ScriptsWithoutRef(tags, ref) ==
  IF ref \in 1..Len(tags)
  THEN SubSeq(tags, 1, ref - 1) \o SubSeq(tags, ref + 1, Len(tags))
  ELSE tags

\* the script tags after the cleanup of the script-loader effect: the cleanup
\* never touches the document, scriptTagRef.current is not read
ScriptsAfterCleanup(tags, ref) == tags

\* the poll callback forgets clearInterval
IntervalKeptAfterTick(active) == active

\* `if (checkInterval) clearInterval(checkInterval)` of the poll callback
IntervalAfterTick(active) == FALSE

\* the tracking effect registers the listener unconditionally
ShouldTrackAlways(ready, x, y) == TRUE

\* `if (isGsapReady && xTo.current && yTo.current)` of the tracking effect
ShouldTrack(ready, x, y) == ready /\ x # 0 /\ y # 0

\* xTo is fed the raw event.clientX
OffsetXRaw(cx) == cx

\* event.clientX - 72
OffsetX(cx) == cx - BlobHalf

\* yTo is fed event.clientX
OffsetYOfX(cy) == mouse'[1] - BlobHalf

\* event.clientY - 72
OffsetY(cy) == cy - BlobHalf

\* context.revert() on the context with id c
Reverted(ctxs, c) ==
  [k \in 1..Len(ctxs) |-> IF k = c THEN [ctxs[k] EXCEPT !.reverted = TRUE]
                                   ELSE ctxs[k]]

\* initializeGsap with a readiness guard in front: a second call is a no-op
InitializeGsapOnce(i, g, blob, ep, ctxs, rp) ==
  IF isGsapReady[i]
  THEN /\ contexts' = ctxs
       /\ UNCHANGED <<gsapContext, xTo, yTo, isGsapReady>>
       /\ retryPending' = rp
  ELSE IF g /\ blob
  THEN LET id == Len(ctxs) + 1 IN
       /\ contexts' = Append(ctxs, [inst |-> i, epoch |-> ep, reverted |-> FALSE])
       /\ gsapContext' = [gsapContext EXCEPT ![i] = id]
       /\ xTo' = [xTo EXCEPT ![i] = id]
       /\ yTo' = [yTo EXCEPT ![i] = id]
       /\ isGsapReady' = [isGsapReady EXCEPT ![i] = TRUE]
       /\ retryPending' = rp
  ELSE /\ contexts' = ctxs
       /\ UNCHANGED <<gsapContext, xTo, yTo, isGsapReady>>
       /\ retryPending' = IF blob THEN [rp EXCEPT ![i] = @ + 1] ELSE rp

\* initializeGsap of instance i: window.gsap = g, blobRef.current non-null =
\* blob, in effect run ep, on the context list ctxs and the retry timers rp
InitializeGsap(i, g, blob, ep, ctxs, rp) ==
  IF CanInitialize(g, blob)
  THEN LET id == Len(ctxs) + 1 IN
       /\ contexts' = Append(ctxs, [inst |-> i, epoch |-> ep, reverted |-> FALSE])
       /\ gsapContext' = [gsapContext EXCEPT ![i] = id]
       /\ xTo' = [xTo EXCEPT ![i] = id]
       /\ yTo' = [yTo EXCEPT ![i] = id]
       /\ isGsapReady' = [isGsapReady EXCEPT ![i] = SetIsGsapReady(@)]
       /\ retryPending' = rp
  ELSE /\ contexts' = ctxs
       /\ UNCHANGED <<gsapContext, xTo, yTo, isGsapReady>>
       /\ retryPending' = IF ShouldRetry(blob)
                          THEN [rp EXCEPT ![i] = @ + 1]
                          ELSE rp

\* the contexts after the cleanup of the script-loader effect of instance i
CleanupContexts(i) ==
  IF CleanupHasContext(gsapContext[i])
  THEN Reverted(contexts, gsapContext[i])
  ELSE contexts

\* the cleanup calls revert() on a null context: a TypeError
CleanupThrows(i) == CleanupHasContext(gsapContext[i]) /\ gsapContext[i] = 0

\* the blob's position after the cleanup: revert() restores the original state
CleanupBlob(i, pos) ==
  IF CleanupHasContext(gsapContext[i]) THEN [pos EXCEPT ![i] = 0] ELSE pos

\* the setup of the script-loader effect of instance i in effect run ep, after
\* which the contexts were ctxs, the poll intervals ci and the script tags tags
LoaderSetup(i, ep, ctxs, ci, tags) ==
  /\ atMount' = [atMount EXCEPT ![i] = [tag |-> ExistingScript(tags),
                                        gsap |-> gsap]]
  /\ IF ExistingScript(tags)
     THEN /\ scripts' = tags
          /\ scriptTagRef' = [scriptTagRef EXCEPT ![i] = 1]
          /\ IF EngineOnWindow(gsap)
             THEN /\ checkInterval' = ci
                  /\ InitializeGsap(i, gsap, TRUE, ep, ctxs, retryPending)
             ELSE /\ checkInterval' = [ci EXCEPT ![i] = TRUE]
                  /\ contexts' = ctxs
                  /\ UNCHANGED <<gsapContext, xTo, yTo, isGsapReady, retryPending>>
     ELSE /\ scripts' = Append(tags, [inst |-> i, epoch |-> ep,
                                         status |-> "loading"])
          /\ scriptTagRef' = [scriptTagRef EXCEPT ![i] = Len(tags) + 1]
          /\ checkInterval' = ci
          /\ contexts' = ctxs
          /\ UNCHANGED <<gsapContext, xTo, yTo, isGsapReady, retryPending>>

Init ==
  /\ gsap = FALSE
  /\ scripts = <<>>
  /\ contexts = <<>>
  /\ nInst = 0
  /\ phase = [i \in Inst |-> "unborn"]
  /\ epoch = [i \in Inst |-> 0]
  /\ blobRef = [i \in Inst |-> FALSE]
  /\ isGsapReady = [i \in Inst |-> FALSE]
  /\ rendered = [i \in Inst |-> FALSE]
  /\ xTo = [i \in Inst |-> 0]
  /\ yTo = [i \in Inst |-> 0]
  /\ gsapContext = [i \in Inst |-> 0]
  /\ scriptTagRef = [i \in Inst |-> 0]
  /\ checkInterval = [i \in Inst |-> FALSE]
  /\ retryPending = [i \in Inst |-> 0]
  /\ listener = [i \in Inst |-> FALSE]
  /\ atMount = [i \in Inst |-> [tag |-> FALSE, gsap |-> FALSE]]
  /\ mouse = <<80, 80>>
  /\ blobX = [i \in Inst |-> 0]
  /\ blobY = [i \in Inst |-> 0]
  /\ error = FALSE

\* the environment defines window.gsap
EngineAppears ==
  /\ ~gsap
  /\ gsap' = TRUE
  /\ UNCHANGED <<scripts, contexts, nInst, phase, epoch, blobRef, isGsapReady,
                 rendered, xTo, yTo, gsapContext, scriptTagRef, checkInterval,
                 retryPending, listener, atMount, mouse, blobX, blobY, error>>

\* React mounts a new instance of App: the blob's ref is attached, then both
\* effects run; the tracking effect sees the initial isGsapReady = false
Mount ==
  /\ nInst < MaxInstances
  /\ \A j \in Inst : phase[j] # "mounted"
  /\ LET i == nInst + 1 IN
     /\ nInst' = i
     /\ phase' = [phase EXCEPT ![i] = "mounted"]
     /\ blobRef' = [blobRef EXCEPT ![i] = TRUE]
     /\ LoaderSetup(i, epoch[i], contexts, checkInterval, scripts)
     /\ listener' = [listener EXCEPT ![i] = ShouldTrack(rendered[i], xTo[i], yTo[i])]
  /\ UNCHANGED <<gsap, epoch, rendered, mouse, blobX, blobY, error>>

\* React unmounts instance i: both cleanups run and the blob's ref is detached
Unmount(i) ==
  /\ phase[i] = "mounted"
  /\ phase' = [phase EXCEPT ![i] = "unmounted"]
  /\ blobRef' = [blobRef EXCEPT ![i] = FALSE]
  /\ checkInterval' = [checkInterval EXCEPT ![i] = IntervalAfterCleanup(@)]
  /\ contexts' = CleanupContexts(i)
  /\ blobX' = CleanupBlob(i, blobX)
  /\ blobY' = CleanupBlob(i, blobY)
  /\ error' = (error \/ CleanupThrows(i))
  /\ listener' = [listener EXCEPT ![i] = ListenerAfterCleanup(@)]
  /\ scripts' = ScriptsAfterCleanup(scripts, scriptTagRef[i])
  /\ UNCHANGED <<gsap, nInst, epoch, isGsapReady, rendered, xTo, yTo,
                 gsapContext, scriptTagRef, retryPending, atMount, mouse>>

\* React re-runs the effects of the mounted instance i in place (fast refresh,
\* strict mode): state and refs are kept, every cleanup runs, then every setup
FastRefresh(i) ==
  /\ phase[i] = "mounted"
  /\ epoch[i] < MaxRefresh
  /\ epoch' = [epoch EXCEPT ![i] = @ + 1]
  /\ rendered' = [rendered EXCEPT ![i] = isGsapReady[i]]
  /\ blobX' = CleanupBlob(i, blobX)
  /\ blobY' = CleanupBlob(i, blobY)
  /\ error' = (error \/ CleanupThrows(i))
  /\ LoaderSetup(i, epoch[i] + 1, CleanupContexts(i),
                 [checkInterval EXCEPT ![i] = IntervalAfterCleanup(@)],
                 ScriptsAfterCleanup(scripts, scriptTagRef[i]))
  /\ listener' = [listener EXCEPT
                    ![i] = ListenerAfterCleanup(@)
                             \/ ShouldTrack(rendered'[i], xTo'[i], yTo'[i])]
  /\ UNCHANGED <<gsap, nInst, phase, blobRef, mouse>>

\* React commits the render that follows setIsGsapReady and re-runs the
\* tracking effect, whose dependency isGsapReady changed
MouseTrackingEffect(i) ==
  /\ phase[i] = "mounted"
  /\ rendered[i] # isGsapReady[i]
  /\ rendered' = [rendered EXCEPT ![i] = isGsapReady[i]]
  /\ listener' = [listener EXCEPT
                    ![i] = ListenerAfterCleanup(@)
                             \/ ShouldTrack(isGsapReady[i], xTo[i], yTo[i])]
  /\ UNCHANGED <<gsap, scripts, contexts, nInst, phase, epoch, blobRef,
                 isGsapReady, xTo, yTo, gsapContext, scriptTagRef,
                 checkInterval, retryPending, atMount, mouse, blobX, blobY,
                 error>>

\* the tag k finishes loading: the script ran (and defined window.gsap or did
\* not), then script.onload = initializeGsap of the instance that appended it
ScriptOnload(k) ==
  /\ k \in 1..Len(scripts)
  /\ scripts[k].status = "loading"
  /\ \E defines \in BOOLEAN :
       /\ gsap' = (gsap \/ defines)
       /\ scripts' = [scripts EXCEPT ![k].status = "loaded"]
       /\ LET i == scripts[k].inst IN
          InitializeGsap(i, gsap', blobRef[i], epoch[i], contexts, retryPending)
  /\ UNCHANGED <<nInst, phase, epoch, blobRef, rendered, scriptTagRef,
                 checkInterval, listener, atMount, mouse, blobX, blobY, error>>

\* the tag k fails to load: script.onerror only logs
ScriptOnerror(k) ==
  /\ k \in 1..Len(scripts)
  /\ scripts[k].status = "loading"
  /\ scripts' = [scripts EXCEPT ![k].status = "failed"]
  /\ IF OnerrorInitializes
     THEN LET i == scripts[k].inst IN
          InitializeGsap(i, gsap, blobRef[i], epoch[i], contexts, retryPending)
     ELSE UNCHANGED <<contexts, isGsapReady, xTo, yTo, gsapContext, retryPending>>
  /\ UNCHANGED <<gsap, nInst, phase, epoch, blobRef, rendered, scriptTagRef,
                 checkInterval, listener, atMount, mouse, blobX, blobY, error>>

\* the 50 ms interval callback of instance i
PollTick(i) ==
  /\ checkInterval[i]
  /\ IF EngineOnWindow(gsap)
     THEN /\ checkInterval' = [checkInterval EXCEPT ![i] = IntervalAfterTick(@)]
          /\ InitializeGsap(i, gsap, blobRef[i], epoch[i], contexts, retryPending)
     ELSE UNCHANGED <<checkInterval, contexts, gsapContext, xTo, yTo,
                      isGsapReady, retryPending>>
  /\ UNCHANGED <<gsap, scripts, nInst, phase, epoch, blobRef, rendered,
                 scriptTagRef, listener, atMount, mouse, blobX, blobY, error>>

\* a pending setTimeout(initializeGsap, 100) of instance i fires
RetryFires(i) ==
  /\ retryPending[i] > 0
  /\ InitializeGsap(i, gsap, blobRef[i], epoch[i], contexts,
                    [retryPending EXCEPT ![i] = @ - 1])
  /\ UNCHANGED <<gsap, scripts, nInst, phase, epoch, blobRef, rendered,
                 scriptTagRef, checkInterval, listener, atMount, mouse, blobX,
                 blobY, error>>

\* the value xTo / yTo of instance i leaves in pos when called with v
QuickTo(i, f, pos, v) ==
  IF listener[i] /\ f[i] # 0 THEN [pos EXCEPT ![i] = v] ELSE pos

\* the browser dispatches a mousemove event at (cx, cy) to window: every
\* registered handleMouseMove runs
MouseMove(cx, cy) ==
  /\ <<cx, cy>> # mouse
  /\ mouse' = <<cx, cy>>
  /\ blobX' = [i \in Inst |-> QuickTo(i, xTo, blobX, OffsetX(cx))[i]]
  /\ blobY' = [i \in Inst |-> QuickTo(i, yTo, blobY, OffsetY(cy))[i]]
  /\ UNCHANGED <<gsap, scripts, contexts, nInst, phase, epoch, blobRef,
                 isGsapReady, rendered, xTo, yTo, gsapContext, scriptTagRef,
                 checkInterval, retryPending, listener, atMount, error>>

Next ==
  \/ EngineAppears
  \/ Mount
  \/ \E i \in Inst : Unmount(i)
  \/ \E i \in Inst : FastRefresh(i)
  \/ \E i \in Inst : MouseTrackingEffect(i)
  \/ \E k \in 1..Len(scripts) : ScriptOnload(k)
  \/ \E k \in 1..Len(scripts) : ScriptOnerror(k)
  \/ \E i \in Inst : PollTick(i)
  \/ \E i \in Inst : RetryFires(i)
  \/ \E cx \in Coords, cy \in Coords : MouseMove(cx, cy)

Spec == Init /\ [][Next]_vars

\* the browser settles every pending load (load or error event) and fires every
\* armed timer; React commits every pending render
Fairness ==
  /\ WF_vars(\E k \in 1..Len(scripts) : ScriptOnload(k) \/ ScriptOnerror(k))
  /\ \A i \in Inst : /\ WF_vars(PollTick(i))
                     /\ WF_vars(RetryFires(i))
                     /\ WF_vars(MouseTrackingEffect(i))

FairSpec == Spec /\ Fairness

\* ------------------------------------------------------------- claims

CtxIds == 1..Len(contexts)
TagIds == 1..Len(scripts)

\* C1: at most one animation context is created per mount (per run of the
\* script-loader effect), and once an instance is torn down every context it
\* created has been reverted.
C1_OneContextPerMountAllReverted ==
  /\ \A a \in CtxIds, b \in CtxIds :
       (contexts[a].inst = contexts[b].inst /\ contexts[a].epoch = contexts[b].epoch)
         => a = b
  /\ \A c \in CtxIds :
       phase[contexts[c].inst] = "unmounted" => contexts[c].reverted

\* C2: the pointer-move listener is attached only while the readiness flag is
\* true and both quick-update functions exist.
C2_ListenerOnlyWhenReady ==
  \A i \in Inst : listener[i] => (isGsapReady[i] /\ xTo[i] # 0 /\ yTo[i] # 0)

C2_Witness == \E i \in Inst : listener[i] /\ phase[i] = "mounted"

\* C3: the document holds at most one script tag for the engine URL: the first
\* mount appends it, every later mount finds and reuses it.
C3_SingleScriptTag ==
  /\ Len(scripts) <= 1
  /\ nInst > 0 => Len(scripts) = 1
  /\ \A i \in Inst : phase[i] # "unborn" => scriptTagRef[i] = 1
  /\ \A i \in Inst : (phase[i] # "unborn" /\ atMount[i].tag)
                       => (scripts[1].inst # i \/ scripts[1].epoch # epoch[i])

C3_Witness ==
  /\ nInst = 2
  /\ atMount[2].tag
  /\ Len(scripts) = 1
  /\ scripts[1].inst = 1

\* C4: teardown never throws, whatever stage the instance had reached.
C4_TeardownNeverThrows == error = FALSE

C4_Witness ==
  \E i \in Inst : /\ phase[i] = "unmounted"
                  /\ gsapContext[i] = 0
                  /\ ~checkInterval[i]
                  /\ \E k \in TagIds : scripts[k].inst = i /\ scripts[k].status = "loading"

CallbackPending(i) ==
  \/ checkInterval[i]
  \/ retryPending[i] > 0
  \/ \E k \in TagIds : scripts[k].inst = i /\ scripts[k].status = "loading"

\* C6 as stated: when the engine global is present at mount time, the mount
\* ends up ready and without a poll interval, whether or not a script tag
\* existed: once no callback of the mount is left to run, readiness is true.
C6_ReadyWheneverEnginePresent ==
  \A i \in Inst :
    (phase[i] = "mounted" /\ atMount[i].gsap)
      => /\ ~checkInterval[i]
         /\ ~CallbackPending(i) => isGsapReady[i]

\* C6 as amended: when the engine global is present at mount time no poll
\* interval is created; readiness is true as soon as the effect has run if a
\* script tag existed, and otherwise only once the appended tag's onload has
\* fired.
C6_ReadyWhenEngineAndTagPresent ==
  \A i \in Inst :
    (phase[i] = "mounted" /\ atMount[i].gsap)
      => /\ ~checkInterval[i]
         /\ atMount[i].tag => isGsapReady[i]
         /\ \A k \in TagIds :
              (scripts[k].inst = i /\ scripts[k].status = "loaded") => isGsapReady[i]

C6_Witness ==
  \E i \in Inst : /\ phase[i] = "mounted"
                  /\ epoch[i] = 0
                  /\ atMount[i].gsap
                  /\ atMount[i].tag
                  /\ isGsapReady[i]
                  /\ ~checkInterval[i]

\* C7: a poll tick of a mounted instance that finds the engine global
\* initializes the animations, makes readiness true and clears the interval,
\* so that no further tick can fire.
C7_PollTickInitializesAndClears ==
  [][\A i \in Inst :
       (PollTick(i) /\ EngineOnWindow(gsap) /\ phase[i] = "mounted")
         => /\ isGsapReady'[i]
            /\ ~checkInterval'[i]
            /\ Len(contexts') = Len(contexts) + 1
            /\ gsapContext'[i] = Len(contexts')
            /\ contexts'[Len(contexts')].inst = i]_vars

C7_Witness ==
  /\ phase[2] = "mounted"
  /\ epoch[2] = 0
  /\ atMount[2].tag
  /\ ~atMount[2].gsap
  /\ gsap
  /\ isGsapReady[2]
  /\ ~checkInterval[2]

\* a mousemove event is dispatched in this step
MouseMoved == mouse' # mouse

\* C8 as stated: a pointer-move event before readiness updates neither axis,
\* and every pointer-move event after readiness updates both axes from that
\* event.
C8_EveryMoveAfterReadyUpdates ==
  [][\A i \in Inst :
       MouseMoved =>
         IF isGsapReady[i]
         THEN blobX'[i] = mouse'[1] - BlobHalf /\ blobY'[i] = mouse'[2] - BlobHalf
         ELSE blobX'[i] = blobX[i] /\ blobY'[i] = blobY[i]]_vars

\* C8 as amended: a pointer-move event updates both axes, from that event,
\* exactly when the instance's listener is attached (readiness is true, the
\* tracking effect has committed and the instance is not torn down); in every
\* other state, in particular before readiness, it updates neither axis.
C8_MoveUpdatesIffListening ==
  [][\A i \in Inst :
       MouseMoved =>
         /\ ~isGsapReady[i] => ~listener[i]
         /\ IF listener[i]
            THEN blobX'[i] = mouse'[1] - BlobHalf /\ blobY'[i] = mouse'[2] - BlobHalf
            ELSE blobX'[i] = blobX[i] /\ blobY'[i] = blobY[i]]_vars

C8_Witness ==
  \E i \in Inst : /\ listener[i]
                  /\ mouse = <<100, 80>>
                  /\ blobX[i] = 28
                  /\ blobY[i] = 8

\* C9: once the tag a mount appended has failed to load, the tag stays failed
\* and no tag is added (no retry of the load), and for as long as that mount
\* lasts its readiness flag stays false and it has no poll interval, no retry
\* timer and no animation context.
C9_FailedLoadStaysNotReady ==
  [][\A k \in TagIds :
       scripts[k].status = "failed" =>
         LET i == scripts[k].inst IN
         /\ Len(scripts') = Len(scripts)
         /\ scripts'[k].status = "failed"
         /\ (phase'[i] = "mounted" /\ epoch'[i] = scripts[k].epoch)
              => /\ ~isGsapReady'[i]
                 /\ ~checkInterval'[i]
                 /\ retryPending'[i] = 0
                 /\ gsapContext'[i] = 0]_vars

C9_Witness ==
  \E k \in TagIds :
    /\ scripts[k].status = "failed"
    /\ phase[scripts[k].inst] = "mounted"
    /\ epoch[scripts[k].inst] = scripts[k].epoch
    /\ gsap
    /\ ~isGsapReady[scripts[k].inst]

\* instance i's initializeGsap is called in this step
InitializeCalled(i) ==
  \/ PollTick(i) /\ EngineOnWindow(gsap)
  \/ RetryFires(i)
  \/ FastRefresh(i) /\ atMount'[i].tag /\ atMount'[i].gsap
  \/ \E k \in TagIds : scripts[k].inst = i /\ ScriptOnload(k)

C11_NoListenerNoErrorAfterUnmount ==
  \A i \in Inst : phase[i] = "unmounted" => (~listener[i] /\ ~error)

C11_Witness ==
  \E k \in TagIds :
    /\ phase[scripts[k].inst] = "unmounted"
    /\ epoch[scripts[k].inst] = 0
    /\ scripts[k].status = "loaded"
    /\ gsap
    /\ gsapContext[scripts[k].inst] = 0
    /\ retryPending[scripts[k].inst] = 0

\* C12: a mount that finds neither the engine global nor a script tag appends
\* the tag; when that tag's onload fires with the global set and the target
\* element mounted, the readiness flag becomes true and exactly one animation
\* context exists.
C12_OnloadInitializesOnce ==
  /\ [](\A i \in Inst :
          (phase[i] # "unborn" /\ ~atMount[i].tag)
            => \E k \in TagIds : scripts[k].inst = i /\ scripts[k].epoch = epoch[i])
  /\ [][\A k \in TagIds :
          LET i == scripts[k].inst IN
          (/\ ScriptOnload(k)
           /\ gsap'
           /\ blobRef[i]
           /\ ~atMount[i].tag
           /\ ~atMount[i].gsap
           /\ epoch[i] = scripts[k].epoch)
            => /\ isGsapReady'[i]
               /\ Len(contexts') = 1
               /\ contexts'[1] = [inst |-> i, epoch |-> epoch[i], reverted |-> FALSE]
               /\ gsapContext'[i] = 1]_vars

C12_Witness ==
  /\ phase[1] = "mounted"
  /\ epoch[1] = 0
  /\ ~atMount[1].tag
  /\ ~atMount[1].gsap
  /\ scripts[1].status = "loaded"
  /\ isGsapReady[1]
  /\ Len(contexts) = 1
  /\ retryPending[1] = 0

\* C13: a poll interval is active only for a mounted instance whose current
\* effect run created it (it found the tag but not the global); every
\* teardown clears the interval, so no poll tick fires for a torn-down mount.
C13_NoIntervalAfterTeardown ==
  /\ [](\A i \in Inst :
          checkInterval[i]
            => (phase[i] = "mounted" /\ atMount[i].tag /\ ~atMount[i].gsap))
  /\ [][\A i \in Inst : PollTick(i) => phase[i] = "mounted"]_vars

C13_Witness ==
  \E i \in Inst : /\ phase[i] = "unmounted"
                  /\ atMount[i].tag
                  /\ ~atMount[i].gsap
                  /\ ~isGsapReady[i]
                  /\ ~checkInterval[i]

\* 1 if the target element of instance i is mounted, else 0
OneIfMounted(i) == IF blobRef[i] THEN 1 ELSE 0

\* C14: a failing call of initialize schedules exactly one retry timer if the
\* target element is mounted and none if it is not; an instance never has
\* more than one retry timer pending; and while the element stays mounted and
\* initialization has not succeeded, a failed onload keeps one retry pending.
C14_OneRetryAtATime ==
  /\ [](\A i \in Inst : retryPending[i] \in {0, 1})
  /\ [](\A k \in TagIds :
          LET i == scripts[k].inst IN
          (scripts[k].status = "loaded" /\ phase[i] = "mounted" /\ ~isGsapReady[i])
            => retryPending[i] = 1)
  /\ [][\A i \in Inst :
          /\ (RetryFires(i) /\ ~(gsap /\ blobRef[i]))
               => retryPending'[i] = retryPending[i] - 1 + OneIfMounted(i)
          /\ \A k \in TagIds :
               (scripts[k].inst = i /\ ScriptOnload(k) /\ ~(gsap' /\ blobRef[i]))
                 => retryPending'[i] = retryPending[i] + OneIfMounted(i)]_vars

C14_Witness ==
  \E i \in Inst : /\ phase[i] = "unmounted"
                  /\ retryPending[i] = 0
                  /\ ~gsap
                  /\ \E k \in TagIds : scripts[k].inst = i /\ scripts[k].status = "loaded"

\* the tag k was appended by an effect run that has been torn down
TornDown(k) ==
  \/ phase[scripts[k].inst] = "unmounted"
  \/ epoch[scripts[k].inst] > scripts[k].epoch

\* C15: a callback that fires after the teardown of the effect run that
\* registered it (the onload of its tag; a retry timer or poll tick of an
\* unmounted instance) creates no animation context and sets no readiness
\* flag, and a retry timer that fires after unmount schedules no further retry.
C15_NoInitializationAfterTeardown ==
  [][/\ \A k \in TagIds :
          (TornDown(k) /\ ScriptOnload(k))
            => (contexts' = contexts /\ isGsapReady' = isGsapReady)
     /\ \A i \in Inst :
          (phase[i] = "unmounted" /\ (RetryFires(i) \/ PollTick(i)))
            => /\ contexts' = contexts
               /\ isGsapReady' = isGsapReady
               /\ retryPending'[i] < retryPending[i]]_vars

\* the load of some script tag has failed
LoadFailed == \E k \in TagIds : scripts[k].status = "failed"

\* C16: under fair scheduling of the load, poll, retry and render callbacks,
\* whenever an instance is mounted and the engine global is available, either
\* the instance eventually is ready with its pointer-move listener attached,
\* or it is unmounted, or the script load has failed.
C16_EventuallyReadyAndTracking ==
  \A i \in Inst :
    (phase[i] = "mounted" /\ gsap)
      ~> \/ isGsapReady[i] /\ listener[i]
         \/ phase[i] = "unmounted"
         \/ LoadFailed

C16_Witness ==
  \E i \in Inst : /\ phase[i] = "mounted"
                  /\ gsap
                  /\ isGsapReady[i]
                  /\ listener[i]
                  /\ ~LoadFailed
                  /\ retryPending[i] = 0
                  /\ ~checkInterval[i]

\* C17: a pointer-move event handled by an attached listener calls xTo with
\* clientX - 72 and yTo with the same event's clientY - 72, 72 being half of
\* the blob's size of 144; the event changes nothing but the pointer position
\* and the blob's target position.
C17_HandlerOffsetsByHalfBlob ==
  [][MouseMoved =>
       /\ 2 * 72 = BlobSize
       /\ \A i \in Inst :
            (listener[i] /\ isGsapReady[i])
              => (blobX'[i] = mouse'[1] - 72 /\ blobY'[i] = mouse'[2] - 72)
       /\ UNCHANGED <<gsap, scripts, contexts, nInst, phase, epoch, blobRef,
                      isGsapReady, rendered, xTo, yTo, gsapContext,
                      scriptTagRef, checkInterval, retryPending, listener,
                      atMount, error>>]_vars

C17_Witness ==
  \E i \in Inst : /\ listener[i]
                  /\ isGsapReady[i]
                  /\ mouse = <<100, 100>>
                  /\ blobX[i] = 28
                  /\ blobY[i] = 28

\* C18: whenever an instance's readiness flag is true, the engine global is
\* present, the instance has an animation context and both quick-update
\* functions are set; the flag turns true only in a step in which initialize
\* succeeds: engine global and target element present, a context created.
C18_ReadyImpliesInitialized ==
  /\ [](\A i \in Inst :
          isGsapReady[i]
            => /\ gsap
               /\ gsapContext[i] \in CtxIds
               /\ contexts[gsapContext[i]].inst = i
               /\ xTo[i] # 0
               /\ yTo[i] # 0)
  /\ [][\A i \in Inst :
          (~isGsapReady[i] /\ isGsapReady'[i])
            => /\ gsap'
               /\ blobRef'[i]
               /\ Len(contexts') = Len(contexts) + 1
               /\ gsapContext'[i] = Len(contexts')
               /\ xTo'[i] = Len(contexts')
               /\ yTo'[i] = Len(contexts')]_vars

C18_Witness ==
  \E i \in Inst : /\ isGsapReady[i]
                  /\ gsap
                  /\ gsapContext[i] = Len(contexts)
                  /\ xTo[i] = gsapContext[i]
                  /\ yTo[i] = gsapContext[i]
                  /\ ~contexts[gsapContext[i]].reverted
                  /\ ~rendered[i]

====
